---------------------------- MODULE Spec2Model ----------------------------
(*
  Model of the command validator of the battle core
  (src/src/core/battle/check.rs).

  `check(state, command)` is a pure function of an immutable battle state and
  a candidate command.  The model keeps the battle state fixed after Init,
  lets a caller submit one command at a time and records what the validator
  returns.

  Option<T> is modelled as a sequence: <<>> is None and <<v>> is Some(v).
  A component table of `Parts` is a function Ids -> Option<component>;
  `get_opt(id)` reads it, `get(id)` is the total lookup that panics when the
  component is absent.  A panic of the validator is the outcome "Panic".
*)
EXTENDS Integers, Sequences, FiniteSets

VARIABLES state, command, result

vars == <<state, command, result>>

\* ------------------------------------------------------------------ bounds

\* Columns 0..MaxQ of the coordinates the model draws from.
MaxQ == 4

\* Radius of the hex map around its origin.
MapRadius == 3

\* Longest path of a MoveTo command, in steps.
MaxPathSteps == 2

\* Largest move_points of an agent.
MaxMovePoints == 2

\* Longest ability list drawn entry by entry.
MaxAbilities == 2

\* base_strength of the agents.
BaseStrength == 2

\* Largest attack_distance of an agent.
MaxAttackDistance == 2

\* ------------------------------------------------------- program constants

BOMB_THROW_DISTANCE_MAX == 3

\* ------------------------------------------------------------ basic values

None == <<>>

Some(v) == <<v>>

Ids == {1, 2, 3}

PlayerIds == {0, 1}

\* Weight::Normal < Weight::Heavy < Weight::Immovable
WeightNormal == "Normal"

Weights == {"Normal", "Heavy", "Immovable"}

WeightRank(w) == CASE w = "Normal" -> 0 [] w = "Heavy" -> 1 [] OTHER -> 2

Abilities ==
    {"Knockback", "Club", "Jump", "LongJump", "Poison",
     "Bomb", "BombPush", "BombFire", "BombPoison", "BombDemonic",
     "Summon", "Vanish", "Dash", "Rage", "Heal", "GreatHeal", "Bloodlust",
     "ExplodePush", "ExplodeDamage", "ExplodeFire", "ExplodePoison"}

Errors ==
    {"NotEnoughMovePoints", "NotEnoughStrength", "BadActorId", "BadTargetId",
     "BadTargetType", "TileIsBlocked", "DistanceIsTooBig", "DistanceIsTooSmall",
     "CanNotCommandEnemyAgents", "NotEnoughMoves", "NotEnoughAttacks",
     "AbilityIsNotReady", "NoSuchAbility", "NoTarget", "BadPos", "BadActorType",
     "BattleEnded"}

Ok == "Ok"

Panic == "Panic"

PosHex(q, r) == [q |-> q, r |-> r]

\* Every coordinate a command may name; some of them lie outside the map.
Rows == {0, 1}

Positions == {PosHex(q, r) : q \in 0..MaxQ, r \in Rows}

\* ------------------------------------------------------- map collaborators

Abs(x) == IF x < 0 THEN -x ELSE x

\* map::distance_hex: cube distance of two axial coordinates.
distance_hex(a, b) ==
    LET dx == a.q - b.q
        dz == a.r - b.r
        dy == (-a.q - a.r) - (-b.q - b.r)
    IN  (Abs(dx) + Abs(dy) + Abs(dz)) \div 2

\* HexMap::is_inboard: within the map radius of the origin.
is_inboard(s, pos) == distance_hex(PosHex(0, 0), pos) <= MapRadius

\* ----------------------------------------------------- state collaborators

\* state::is_tile_blocked: some blocker stands on the tile.
is_tile_blocked(s, pos) ==
    \E id \in Ids : s.parts.blocker[id] # None /\ s.parts.pos[id] = Some(pos)

agent_ids_at(s, pos) ==
    {id \in Ids : s.parts.agent[id] # None /\ s.parts.pos[id] = Some(pos)}

blocker_ids_at(s, pos) ==
    {id \in Ids : s.parts.blocker[id] # None /\ s.parts.pos[id] = Some(pos)}

\* state::agent_id_at_opt: the single agent on the tile, if there is one.
agent_id_at_opt(s, pos) ==
    IF Cardinality(agent_ids_at(s, pos)) = 1
    THEN Some(CHOOSE id \in agent_ids_at(s, pos) : TRUE)
    ELSE None

\* state::blocker_id_at_opt: the single blocker on the tile, if there is one.
blocker_id_at_opt(s, pos) ==
    IF Cardinality(blocker_ids_at(s, pos)) = 1
    THEN Some(CHOOSE id \in blocker_ids_at(s, pos) : TRUE)
    ELSE None

\* PushStrength::can_push
can_push(strength, weight) == WeightRank(weight) <= WeightRank(strength)

\* movement::Path::steps: the destinations of the consecutive tile pairs.
steps(path) == [i \in 1..(Len(path) - 1) |-> [from |-> path[i], to |-> path[i + 1]]]

\* movement::tile_cost
tile_cost(s, id, from, to) == 1

RECURSIVE SumCost(_, _, _, _)
SumCost(s, id, st, i) ==
    IF i > Len(st) THEN 0
    ELSE tile_cost(s, id, st[i].from, st[i].to) + SumCost(s, id, st, i + 1)

\* movement::Path::cost_for
cost_for(path, s, id) == SumCost(s, id, steps(path), 1)

\* ------------------------------------------------------- shared predicates

check_is_inboard(s, pos) ==
    IF ~is_inboard(s, pos) THEN "BadPos" ELSE Ok

check_not_blocked_and_is_inboard(s, pos) ==
    IF check_is_inboard(s, pos) # Ok THEN check_is_inboard(s, pos)
    ELSE IF is_tile_blocked(s, pos) THEN "TileIsBlocked"
    ELSE Ok

\* Faulty variant of check_min_distance: the bound itself is rejected.
check_min_distance_inclusive(from, to, min) ==
    IF distance_hex(from, to) <= min THEN "DistanceIsTooSmall" ELSE Ok

check_min_distance(from, to, min) ==
    IF distance_hex(from, to) < min THEN "DistanceIsTooSmall" ELSE Ok

check_max_distance(from, to, max) ==
    IF distance_hex(from, to) > max THEN "DistanceIsTooBig" ELSE Ok

check_object_pos(s, id, expected_pos) ==
    IF s.parts.pos[id] = None THEN Panic
    ELSE IF s.parts.pos[id][1] # expected_pos THEN "BadPos"
    ELSE Ok

\* Result<&Agent, Error>: Some(agent) or the error.
try_get_actor(s, id) ==
    IF s.parts.agent[id] # None THEN Ok ELSE "BadActorId"

\* Faulty variant of check_agent_can_attack: it reads the moves counter.
check_agent_can_attack_reads_moves(s, id) ==
    IF try_get_actor(s, id) # Ok THEN try_get_actor(s, id)
    ELSE IF s.parts.agent[id][1].moves = 0 /\ s.parts.agent[id][1].jokers = 0
         THEN "NotEnoughAttacks"
    ELSE Ok

check_agent_can_attack(s, id) ==
    IF try_get_actor(s, id) # Ok THEN try_get_actor(s, id)
    ELSE IF s.parts.agent[id][1].attacks = 0 /\ s.parts.agent[id][1].jokers = 0
         THEN "NotEnoughAttacks"
    ELSE Ok

check_agent_can_move(s, id) ==
    IF try_get_actor(s, id) # Ok THEN try_get_actor(s, id)
    ELSE IF s.parts.agent[id][1].moves = 0 /\ s.parts.agent[id][1].jokers = 0
         THEN "NotEnoughMoves"
    ELSE Ok

check_agent_belongs_to_correct_player(s, id) ==
    IF s.parts.belongs_to[id] = None THEN Panic
    ELSE IF s.parts.belongs_to[id][1] # s.player_id THEN "CanNotCommandEnemyAgents"
    ELSE Ok

\* The loop of check_agent_ability_ready from entry i on.
RECURSIVE ScanAbilities(_, _, _, _)
ScanAbilities(abilities, expected_ability, i, found) ==
    IF i > Len(abilities)
    THEN IF ~found THEN "NoSuchAbility" ELSE Ok
    ELSE IF abilities[i].ability = expected_ability
         THEN IF abilities[i].status # "Ready"
              THEN "AbilityIsNotReady"
              ELSE ScanAbilities(abilities, expected_ability, i + 1, TRUE)
         ELSE ScanAbilities(abilities, expected_ability, i + 1, found)

\* Faulty variant of check_agent_ability_ready: the scan stops at the first
\* entry of the requested kind.
check_agent_ability_ready_first_match(s, id, expected_ability) ==
    IF s.parts.abilities[id] = None THEN "BadActorType"
    ELSE LET abilities == s.parts.abilities[id][1]
             hits == {i \in 1..Len(abilities) : abilities[i].ability = expected_ability}
         IN  IF hits = {} THEN "NoSuchAbility"
             ELSE IF abilities[CHOOSE i \in hits : \A j \in hits : i <= j].status # "Ready"
                  THEN "AbilityIsNotReady"
             ELSE Ok

check_agent_ability_ready(s, id, expected_ability) ==
    IF s.parts.abilities[id] = None THEN "BadActorType"
    ELSE ScanAbilities(s.parts.abilities[id][1], expected_ability, 1, FALSE)


\* --------------------------------------------------------- ability checkers

check_ability_knockback(s, id, pos) ==
    IF s.parts.pos[id] = None THEN Panic
    ELSE LET selected_pos == s.parts.pos[id][1]
             target == agent_id_at_opt(s, pos)
         IN  IF check_min_distance(selected_pos, pos, 1) # Ok
             THEN check_min_distance(selected_pos, pos, 1)
             ELSE IF check_max_distance(selected_pos, pos, 1) # Ok
             THEN check_max_distance(selected_pos, pos, 1)
             ELSE IF target = None THEN "NoTarget"
             ELSE IF s.parts.blocker[target[1]] = None THEN Panic
             ELSE IF ~can_push(WeightNormal, s.parts.blocker[target[1]][1].weight)
                  THEN "NotEnoughStrength"
             ELSE Ok

check_ability_jump(s, id, pos, max_distance) ==
    IF s.parts.pos[id] = None THEN Panic
    ELSE LET agent_pos == s.parts.pos[id][1]
         IN  IF check_min_distance(agent_pos, pos, 2) # Ok
             THEN check_min_distance(agent_pos, pos, 2)
             ELSE IF check_max_distance(agent_pos, pos, max_distance) # Ok
             THEN check_max_distance(agent_pos, pos, max_distance)
             ELSE check_not_blocked_and_is_inboard(s, pos)

check_ability_club(s, id, pos) ==
    IF s.parts.pos[id] = None THEN Panic
    ELSE LET selected_pos == s.parts.pos[id][1]
         IN  IF check_min_distance(selected_pos, pos, 1) # Ok
             THEN check_min_distance(selected_pos, pos, 1)
             ELSE IF check_max_distance(selected_pos, pos, 1) # Ok
             THEN check_max_distance(selected_pos, pos, 1)
             ELSE IF agent_id_at_opt(s, pos) = None THEN "NoTarget"
             ELSE Ok

check_ability_poison(s, id, pos) ==
    IF s.parts.pos[id] = None THEN Panic
    ELSE LET selected_pos == s.parts.pos[id][1]
         IN  IF check_min_distance(selected_pos, pos, 1) # Ok
             THEN check_min_distance(selected_pos, pos, 1)
             ELSE IF check_max_distance(selected_pos, pos, 3) # Ok
             THEN check_max_distance(selected_pos, pos, 3)
             ELSE IF blocker_id_at_opt(s, pos) = None THEN "NoTarget"
             ELSE Ok

check_ability_explode(s, id, pos) == check_object_pos(s, id, pos)

check_ability_bomb_throw(s, id, pos) ==
    IF s.parts.pos[id] = None THEN Panic
    ELSE LET agent_pos == s.parts.pos[id][1]
         IN  IF check_max_distance(agent_pos, pos, BOMB_THROW_DISTANCE_MAX) # Ok
             THEN check_max_distance(agent_pos, pos, BOMB_THROW_DISTANCE_MAX)
             ELSE check_not_blocked_and_is_inboard(s, pos)

check_ability_summon(s, id, pos) == check_object_pos(s, id, pos)

check_ability_vanish(s, id, pos) ==
    IF s.parts.agent[id] # None THEN "BadActorType"
    ELSE IF s.parts.pos[id] = None THEN "BadActorType"
    ELSE IF pos # s.parts.pos[id][1] THEN "BadPos"
    ELSE Ok

check_ability_dash(s, id, pos) ==
    IF s.parts.pos[id] = None THEN Panic
    ELSE LET agent_pos == s.parts.pos[id][1]
         IN  IF check_max_distance(agent_pos, pos, 1) # Ok
             THEN check_max_distance(agent_pos, pos, 1)
             ELSE check_not_blocked_and_is_inboard(s, pos)

check_ability_rage(s, id, pos) == check_object_pos(s, id, pos)

\* Faulty variant of check_ability_heal: the strength comparison is inverted.
check_ability_heal_inverted(s, id, pos) ==
    IF s.parts.pos[id] = None THEN Panic
    ELSE LET agent_pos == s.parts.pos[id][1]
             target == agent_id_at_opt(s, pos)
         IN  IF check_max_distance(agent_pos, pos, 1) # Ok
             THEN check_max_distance(agent_pos, pos, 1)
             ELSE IF target = None THEN "NoTarget"
             ELSE IF s.parts.strength[target[1]] = None THEN "BadActorId"
             ELSE IF s.parts.strength[target[1]][1].strength
                        # s.parts.strength[target[1]][1].base_strength
                  THEN "BadTargetType"
             ELSE Ok

check_ability_heal(s, id, pos) ==
    IF s.parts.pos[id] = None THEN Panic
    ELSE LET agent_pos == s.parts.pos[id][1]
             target == agent_id_at_opt(s, pos)
         IN  IF check_max_distance(agent_pos, pos, 1) # Ok
             THEN check_max_distance(agent_pos, pos, 1)
             ELSE IF target = None THEN "NoTarget"
             ELSE IF s.parts.strength[target[1]] = None THEN "BadActorId"
             ELSE IF s.parts.strength[target[1]][1].strength
                        = s.parts.strength[target[1]][1].base_strength
                  THEN "BadTargetType"
             ELSE Ok

check_ability_bloodlust(s, id, pos) ==
    IF agent_id_at_opt(s, pos) = None THEN "NoTarget" ELSE Ok

\* The match of check_command_use_ability on the ability kind.
check_ability(s, c) ==
    CASE c.ability = "Knockback" -> check_ability_knockback(s, c.id, c.pos)
      [] c.ability = "Club" -> check_ability_club(s, c.id, c.pos)
      [] c.ability = "Jump" -> check_ability_jump(s, c.id, c.pos, 2)
      [] c.ability = "LongJump" -> check_ability_jump(s, c.id, c.pos, 3)
      [] c.ability = "Poison" -> check_ability_poison(s, c.id, c.pos)
      [] c.ability \in {"Bomb", "BombPush", "BombFire", "BombPoison", "BombDemonic"}
            -> check_ability_bomb_throw(s, c.id, c.pos)
      [] c.ability = "Summon" -> check_ability_summon(s, c.id, c.pos)
      [] c.ability = "Vanish" -> check_ability_vanish(s, c.id, c.pos)
      [] c.ability = "Dash" -> check_ability_dash(s, c.id, c.pos)
      [] c.ability = "Rage" -> check_ability_rage(s, c.id, c.pos)
      [] c.ability \in {"Heal", "GreatHeal"} -> check_ability_heal(s, c.id, c.pos)
      [] c.ability = "Bloodlust" -> check_ability_bloodlust(s, c.id, c.pos)
      [] c.ability \in {"ExplodePush", "ExplodeDamage", "ExplodeFire", "ExplodePoison"}
            -> check_ability_explode(s, c.id, c.pos)

\* --------------------------------------------------------- command checkers

\* The loop of check_command_move_to over the path's steps from step i on.
RECURSIVE CheckSteps(_, _, _)
CheckSteps(s, st, i) ==
    IF i > Len(st) THEN Ok
    ELSE IF check_not_blocked_and_is_inboard(s, st[i].to) # Ok
         THEN check_not_blocked_and_is_inboard(s, st[i].to)
         ELSE CheckSteps(s, st, i + 1)

\* Faulty variant of check_command_move_to: jokers pay for the path as well.
check_command_move_to_pays_with_jokers(s, c) ==
    IF try_get_actor(s, c.id) # Ok THEN try_get_actor(s, c.id)
    ELSE IF s.parts.belongs_to[c.id] = None THEN Panic
    ELSE IF s.parts.belongs_to[c.id][1] # s.player_id THEN "CanNotCommandEnemyAgents"
    ELSE IF check_agent_can_move(s, c.id) # Ok THEN check_agent_can_move(s, c.id)
    ELSE IF CheckSteps(s, steps(c.path), 1) # Ok THEN CheckSteps(s, steps(c.path), 1)
    ELSE IF cost_for(c.path, s, c.id)
                > s.parts.agent[c.id][1].move_points + s.parts.agent[c.id][1].jokers
         THEN "NotEnoughMovePoints"
    ELSE Ok

check_command_move_to(s, c) ==
    IF try_get_actor(s, c.id) # Ok THEN try_get_actor(s, c.id)
    ELSE IF s.parts.belongs_to[c.id] = None THEN Panic
    ELSE IF s.parts.belongs_to[c.id][1] # s.player_id THEN "CanNotCommandEnemyAgents"
    ELSE IF check_agent_can_move(s, c.id) # Ok THEN check_agent_can_move(s, c.id)
    ELSE IF CheckSteps(s, steps(c.path), 1) # Ok THEN CheckSteps(s, steps(c.path), 1)
    ELSE IF cost_for(c.path, s, c.id) > s.parts.agent[c.id][1].move_points
         THEN "NotEnoughMovePoints"
    ELSE Ok

check_command_create(s, c) == check_not_blocked_and_is_inboard(s, c.pos)

\* Faulty variant of check_command_attack: the target's agent component is
\* looked up before the attacker's owner.
check_command_attack_owner_late(s, c) ==
    IF c.attacker_id = c.target_id THEN "BadTargetId"
    ELSE IF s.parts.pos[c.target_id] = None THEN "BadTargetId"
    ELSE IF try_get_actor(s, c.attacker_id) # Ok THEN try_get_actor(s, c.attacker_id)
    ELSE IF s.parts.pos[c.attacker_id] = None THEN Panic
    ELSE IF s.parts.belongs_to[c.attacker_id] = None THEN Panic
    ELSE IF s.parts.agent[c.target_id] = None THEN "BadTargetId"
    ELSE IF s.parts.belongs_to[c.attacker_id][1] # s.player_id
         THEN "CanNotCommandEnemyAgents"
    ELSE IF check_is_inboard(s, s.parts.pos[c.target_id][1]) # Ok
         THEN check_is_inboard(s, s.parts.pos[c.target_id][1])
    ELSE IF check_agent_can_attack(s, c.attacker_id) # Ok
         THEN check_agent_can_attack(s, c.attacker_id)
    ELSE check_max_distance(s.parts.pos[c.attacker_id][1],
                            s.parts.pos[c.target_id][1],
                            s.parts.agent[c.attacker_id][1].attack_distance)

\* Faulty variant of check_command_attack: a target of the attacker's own
\* player is refused.
check_command_attack_enemy_only(s, c) ==
    IF c.attacker_id = c.target_id THEN "BadTargetId"
    ELSE IF s.parts.pos[c.target_id] = None THEN "BadTargetId"
    ELSE IF try_get_actor(s, c.attacker_id) # Ok THEN try_get_actor(s, c.attacker_id)
    ELSE IF s.parts.pos[c.attacker_id] = None THEN Panic
    ELSE IF s.parts.belongs_to[c.attacker_id] = None THEN Panic
    ELSE IF s.parts.belongs_to[c.attacker_id][1] # s.player_id
         THEN "CanNotCommandEnemyAgents"
    ELSE IF s.parts.agent[c.target_id] = None THEN "BadTargetId"
    ELSE IF s.parts.belongs_to[c.target_id] = s.parts.belongs_to[c.attacker_id]
         THEN "BadTargetId"
    ELSE IF check_is_inboard(s, s.parts.pos[c.target_id][1]) # Ok
         THEN check_is_inboard(s, s.parts.pos[c.target_id][1])
    ELSE IF check_agent_can_attack(s, c.attacker_id) # Ok
         THEN check_agent_can_attack(s, c.attacker_id)
    ELSE check_max_distance(s.parts.pos[c.attacker_id][1],
                            s.parts.pos[c.target_id][1],
                            s.parts.agent[c.attacker_id][1].attack_distance)

check_command_attack(s, c) ==
    IF c.attacker_id = c.target_id THEN "BadTargetId"
    ELSE IF s.parts.pos[c.target_id] = None THEN "BadTargetId"
    ELSE IF try_get_actor(s, c.attacker_id) # Ok THEN try_get_actor(s, c.attacker_id)
    ELSE IF s.parts.pos[c.attacker_id] = None THEN Panic
    ELSE IF s.parts.belongs_to[c.attacker_id] = None THEN Panic
    ELSE IF s.parts.belongs_to[c.attacker_id][1] # s.player_id
         THEN "CanNotCommandEnemyAgents"
    ELSE IF s.parts.agent[c.target_id] = None THEN "BadTargetId"
    ELSE IF check_is_inboard(s, s.parts.pos[c.target_id][1]) # Ok
         THEN check_is_inboard(s, s.parts.pos[c.target_id][1])
    ELSE IF check_agent_can_attack(s, c.attacker_id) # Ok
         THEN check_agent_can_attack(s, c.attacker_id)
    ELSE check_max_distance(s.parts.pos[c.attacker_id][1],
                            s.parts.pos[c.target_id][1],
                            s.parts.agent[c.attacker_id][1].attack_distance)

check_command_end_turn(s, c) == Ok

check_command_use_ability(s, c) ==
    IF check_agent_belongs_to_correct_player(s, c.id) # Ok
    THEN check_agent_belongs_to_correct_player(s, c.id)
    ELSE IF check_agent_can_attack(s, c.id) # Ok
    THEN check_agent_can_attack(s, c.id)
    ELSE IF check_agent_ability_ready(s, c.id, c.ability) # Ok
    THEN check_agent_ability_ready(s, c.id, c.ability)
    ELSE check_ability(s, c)

\* Faulty variant of check: the recorded battle result is not looked at.
check_without_short_circuit(s, c) ==
    CASE c.kind = "Create" -> check_command_create(s, c)
      [] c.kind = "MoveTo" -> check_command_move_to(s, c)
      [] c.kind = "Attack" -> check_command_attack(s, c)
      [] c.kind = "EndTurn" -> check_command_end_turn(s, c)
      [] c.kind = "UseAbility" -> check_command_use_ability(s, c)

check(s, c) ==
    IF s.battle_result # None THEN "BattleEnded"
    ELSE CASE c.kind = "Create" -> check_command_create(s, c)
           [] c.kind = "MoveTo" -> check_command_move_to(s, c)
           [] c.kind = "Attack" -> check_command_attack(s, c)
           [] c.kind = "EndTurn" -> check_command_end_turn(s, c)
           [] c.kind = "UseAbility" -> check_command_use_ability(s, c)


\* ------------------------------------------------------------------ inputs

\* One actor's components, each an Option.
Object(pos, belongs_to, agent, abilities, blocker, strength) ==
    [pos |-> pos, belongs_to |-> belongs_to, agent |-> agent,
     abilities |-> abilities, blocker |-> blocker, strength |-> strength]

AgentStats(moves, attacks, jokers, move_points, attack_distance) ==
    [moves |-> moves, attacks |-> attacks, jokers |-> jokers,
     move_points |-> move_points, attack_distance |-> attack_distance]

DefaultStats == AgentStats(1, 1, 0, MaxMovePoints, 1)

RechargeableAbility(ability, status) == [ability |-> ability, status |-> status]

\* An ability list that holds every kind once, Ready.
AllReady ==
    <<RechargeableAbility("Knockback", "Ready"), RechargeableAbility("Club", "Ready"),
      RechargeableAbility("Jump", "Ready"), RechargeableAbility("LongJump", "Ready"),
      RechargeableAbility("Poison", "Ready"), RechargeableAbility("Bomb", "Ready"),
      RechargeableAbility("BombPush", "Ready"), RechargeableAbility("BombFire", "Ready"),
      RechargeableAbility("BombPoison", "Ready"),
      RechargeableAbility("BombDemonic", "Ready"),
      RechargeableAbility("Summon", "Ready"), RechargeableAbility("Vanish", "Ready"),
      RechargeableAbility("Dash", "Ready"), RechargeableAbility("Rage", "Ready"),
      RechargeableAbility("Heal", "Ready"), RechargeableAbility("GreatHeal", "Ready"),
      RechargeableAbility("Bloodlust", "Ready"),
      RechargeableAbility("ExplodePush", "Ready"),
      RechargeableAbility("ExplodeDamage", "Ready"),
      RechargeableAbility("ExplodeFire", "Ready"),
      RechargeableAbility("ExplodePoison", "Ready")>>

\* The entries the short ability lists are drawn from.
ListEntries ==
    {RechargeableAbility("Jump", "Ready"), RechargeableAbility("Jump", "Cooldown"),
     RechargeableAbility("Club", "Ready")}

AbilityLists ==
    {AllReady} \cup UNION {[1..n -> ListEntries] : n \in 0..MaxAbilities}

\* A combat unit: it has every component an agent is created with.
Soldier(owner, pos, stats, abilities, weight, strength) ==
    Object(Some(pos), Some(owner), Some(stats), abilities,
           Some([weight |-> weight]),
           Some([strength |-> strength, base_strength |-> BaseStrength]))

\* A blocking object of the map: a position and a blocker, nothing else.
Boulder(pos, weight) ==
    Object(Some(pos), None, None, None, Some([weight |-> weight]), None)

\* An owned object that is not an agent.
Totem(owner, pos, abilities) ==
    Object(pos, Some(owner), None, abilities, None, None)

\* An identifier no table knows.
Absent == Object(None, None, None, None, None, None)

MkState(battle_result, player_id, objs) ==
    [battle_result |-> battle_result,
     player_id |-> player_id,
     parts |-> [pos |-> [id \in Ids |-> objs[id].pos],
                belongs_to |-> [id \in Ids |-> objs[id].belongs_to],
                agent |-> [id \in Ids |-> objs[id].agent],
                abilities |-> [id \in Ids |-> objs[id].abilities],
                blocker |-> [id \in Ids |-> objs[id].blocker],
                strength |-> [id \in Ids |-> objs[id].strength]]]

Hero == Soldier(0, PosHex(0, 0), DefaultStats, Some(AllReady), "Normal", BaseStrength)

Foe == Soldier(1, PosHex(1, 0), DefaultStats, Some(AllReady), "Normal", BaseStrength)

\* States that vary the mover's resources and what stands on the tiles around it.
MoveStates ==
    {MkState(None, pl, <<o1, o2, o3>>) :
        pl \in PlayerIds,
        o1 \in {Soldier(0, PosHex(0, 0), AgentStats(m, 1, j, mp, 1), Some(AllReady),
                        "Normal", BaseStrength) :
                    m \in {0, 1}, j \in {0, 1}, mp \in 0..MaxMovePoints},
        o2 \in {Foe, Boulder(PosHex(1, 0), "Heavy"), Absent},
        o3 \in {Boulder(PosHex(0, 1), "Immovable"),
                Boulder(PosHex(MapRadius, 0), "Immovable"),
                Absent}}

\* States that vary the attacker's resources and reach, and the target.
AttackStates ==
    {MkState(None, pl, <<o1, o2, o3>>) :
        pl \in PlayerIds,
        o1 \in {Soldier(0, PosHex(0, 0), AgentStats(1, a, j, 1, ad), Some(AllReady),
                        "Normal", BaseStrength) :
                    a \in {0, 1}, j \in {0, 1}, ad \in 1..MaxAttackDistance},
        o2 \in {Soldier(1, PosHex(q, 0), DefaultStats, None, "Normal", BaseStrength) :
                    q \in 1..MapRadius}
               \cup {Soldier(0, PosHex(1, 0), DefaultStats, None, "Normal", BaseStrength),
                     Boulder(PosHex(1, 0), "Heavy"),
                     Totem(1, None, None),
                     Absent},
        o3 \in {Absent}}

\* States that vary the ability list of the actor.
ReadinessStates ==
    {MkState(None, pl, <<o1, o2, o3>>) :
        pl \in PlayerIds,
        o1 \in {Soldier(0, PosHex(0, 0), AgentStats(1, a, 0, 1, 1), ab,
                        "Normal", BaseStrength) :
                    a \in {0, 1}, ab \in {None} \cup {Some(l) : l \in AbilityLists}},
        o2 \in {Foe},
        o3 \in {Absent}}

BattleResults == {None, Some([winner_id |-> 0])}

\* States that vary the target of an ability: who it is, where, how wounded.
TargetStates ==
    {MkState(br, pl, <<o1, o2, o3>>) :
        br \in BattleResults,
        pl \in PlayerIds,
        o1 \in {Hero},
        o2 \in {Soldier(ow, PosHex(q, 0), DefaultStats, Some(AllReady), w, st) :
                    ow \in PlayerIds, q \in {1, 2}, w \in {"Normal", "Heavy"},
                    st \in 1..BaseStrength}
               \cup {Object(Some(PosHex(1, 0)), Some(1), Some(DefaultStats), None,
                            Some([weight |-> "Normal"]), None),
                     Boulder(PosHex(1, 0), "Heavy"),
                     Absent},
        o3 \in {Boulder(PosHex(1, 1), "Immovable"), Absent}}

\* States that hold an actor that is not an agent.
ObjectStates ==
    {MkState(br, pl, <<o1, o2, o3>>) :
        br \in BattleResults,
        pl \in PlayerIds,
        o1 \in {Hero},
        o2 \in {Foe},
        o3 \in {Totem(ow, p, ab) :
                    ow \in PlayerIds,
                    p \in {None, Some(PosHex(0, 1))},
                    ab \in {None,
                            Some(<<RechargeableAbility("Vanish", "Ready")>>),
                            Some(<<RechargeableAbility("Vanish", "Cooldown")>>)}}
               \cup {Boulder(PosHex(0, 1), "Normal")}}

States == MoveStates \cup AttackStates \cup ReadinessStates \cup TargetStates
            \cup ObjectStates

Neighbors(pos) == {p \in Positions : distance_hex(pos, p) = 1}

RECURSIVE PathsOfSteps(_)
PathsOfSteps(n) ==
    IF n = 0 THEN {<<p>> : p \in Positions}
    ELSE {Append(path, p) : path \in PathsOfSteps(n - 1), p \in Positions}

\* Tile sequences whose consecutive tiles are neighbours.
Paths ==
    {path \in UNION {PathsOfSteps(n) : n \in 0..MaxPathSteps} :
        \A i \in 1..(Len(path) - 1) : path[i + 1] \in Neighbors(path[i])}

NoCommand == [kind |-> "None"]

CreateCommands == {[kind |-> "Create", pos |-> p] : p \in Positions}

MoveToCommands == {[kind |-> "MoveTo", id |-> id, path |-> path] : id \in Ids, path \in Paths}

AttackCommands ==
    {[kind |-> "Attack", attacker_id |-> a, target_id |-> t] : a \in Ids, t \in Ids}

EndTurnCommands == {[kind |-> "EndTurn"]}

UseAbilityCommands ==
    {[kind |-> "UseAbility", id |-> id, ability |-> ab, pos |-> p] :
        id \in Ids, ab \in Abilities, p \in Positions}

\* ----------------------------------------------------------- state machine

Init ==
    /\ state \in States
    /\ command = NoCommand
    /\ result = "None"

\* The validator answers the command the caller submits.
Submit(c) ==
    /\ command' = c
    /\ result' = check(state, c)
    /\ UNCHANGED state

Create == command = NoCommand /\ \E c \in CreateCommands : Submit(c)

MoveTo == command = NoCommand /\ \E c \in MoveToCommands : Submit(c)

Attack == command = NoCommand /\ \E c \in AttackCommands : Submit(c)

EndTurn == command = NoCommand /\ \E c \in EndTurnCommands : Submit(c)

UseAbility == command = NoCommand /\ \E c \in UseAbilityCommands : Submit(c)

\* The caller takes the answer; the command is applied or discarded elsewhere.
Return ==
    /\ command # NoCommand
    /\ command' = NoCommand
    /\ result' = "None"
    /\ UNCHANGED state

Next == Create \/ MoveTo \/ Attack \/ EndTurn \/ UseAbility \/ Return

Spec == Init /\ [][Next]_vars

TypeOK ==
    /\ command = NoCommand <=> result = "None"
    /\ result \in {"None", Ok, Panic} \cup Errors

\* ------------------------------------------------------ claim vocabulary

Submitted == command # NoCommand

Live == state.battle_result = None

ActsOnActor == Submitted /\ command.kind \in {"MoveTo", "Attack", "UseAbility"}

\* The acting actor of the submitted command.
Actor == IF command.kind = "Attack" THEN command.attacker_id ELSE command.id

HasAgent(id) == state.parts.agent[id] # None

AgentOf(id) == state.parts.agent[id][1]

OwnedByCurrentPlayer(id) == state.parts.belongs_to[id] = Some(state.player_id)

OwnedByOtherPlayer(id) ==
    /\ state.parts.belongs_to[id] # None
    /\ state.parts.belongs_to[id][1] # state.player_id

HasAttackResource(id) == AgentOf(id).attacks > 0 \/ AgentOf(id).jokers > 0

HasMoveResource(id) == AgentOf(id).moves > 0 \/ AgentOf(id).jokers > 0

\* What the validator answers to the submitted command once the recorded
\* battle result is taken away.
AnswerIfLive == check([state EXCEPT !.battle_result = None], command)

\* The entries of the actor's ability list that have the requested kind.
Matching(id, ability) ==
    {i \in 1..Len(state.parts.abilities[id][1]) :
        state.parts.abilities[id][1][i].ability = ability}

AllMatchingReady(id, ability) ==
    \A i \in Matching(id, ability) : state.parts.abilities[id][1][i].status = "Ready"

\* A UseAbility command that passes the shared preamble.
PassesPreamble ==
    /\ Submitted /\ Live
    /\ command.kind = "UseAbility"
    /\ OwnedByCurrentPlayer(command.id)
    /\ HasAgent(command.id) /\ HasAttackResource(command.id)
    /\ state.parts.abilities[command.id] # None
    /\ Matching(command.id, command.ability) # {}
    /\ AllMatchingReady(command.id, command.ability)

\* Hex distance from the acting actor to the target position of the ability.
TargetDistance == distance_hex(state.parts.pos[command.id][1], command.pos)

\* ------------------------------------------------------------------ claims

\* C1: in a state with a recorded battle result every command variant,
\* also one that would be accepted without the result, is answered BattleEnded.
C1_BattleEndedShortCircuit ==
    (Submitted /\ ~Live) => result = "BattleEnded"

\* C1 witness: an ability use that is legal but for the recorded result.
C1_Witness ==
    /\ Submitted /\ ~Live
    /\ command.kind = "UseAbility"
    /\ AnswerIfLive = Ok
    /\ result = "BattleEnded"

\* C2 as stated: whenever the acting actor of a MoveTo, Attack or UseAbility
\* command is owned by another player than the current one, the answer is
\* CanNotCommandEnemyAgents, whatever the other fields, also when the actor
\* is no agent.
C2_OwnershipAlways ==
    (ActsOnActor /\ Live /\ OwnedByOtherPlayer(Actor))
        => result = "CanNotCommandEnemyAgents"

\* The checks a command passes before its checker looks at the owner.
ReachesOwnershipCheck ==
    CASE command.kind = "UseAbility" -> TRUE
      [] command.kind = "MoveTo" -> HasAgent(command.id)
      [] command.kind = "Attack" ->
            /\ command.attacker_id # command.target_id
            /\ state.parts.pos[command.target_id] # None
            /\ HasAgent(command.attacker_id)

\* C2 amended: the answer is CanNotCommandEnemyAgents for every UseAbility
\* command, for every MoveTo command whose actor has an agent component and
\* for every Attack command whose attacker differs from its target, whose
\* target has a position and whose attacker has an agent component, when
\* the acting actor is owned by another player than the current one.
C2_OwnershipAfterEarlierChecks ==
    (ActsOnActor /\ Live /\ OwnedByOtherPlayer(Actor) /\ ReachesOwnershipCheck)
        => result = "CanNotCommandEnemyAgents"

\* C2 witness: an enemy agent is ordered to attack a target that is no agent.
C2_Witness ==
    /\ Submitted /\ Live
    /\ command.kind = "Attack"
    /\ HasAgent(command.attacker_id)
    /\ OwnedByOtherPlayer(command.attacker_id)
    /\ command.attacker_id # command.target_id
    /\ state.parts.pos[command.target_id] # None
    /\ ~HasAgent(command.target_id)
    /\ result = "CanNotCommandEnemyAgents"

\* C3 as stated: the validator never panics; every command, also one whose
\* actor or target lacks components, is answered Ok or one of the errors.
C3_NeverPanics ==
    Submitted => result \in {Ok} \cup Errors

\* C4 as stated: Vanish is for actors that are no agents.  With no recorded
\* result, an actor of the current player that is no agent, holds Vanish
\* Ready and targets its own position is answered Ok; an agent in the same
\* situation that passes the preamble is answered BadActorType.
C4_VanishForNonAgents ==
    (/\ Submitted /\ Live
     /\ command.kind = "UseAbility" /\ command.ability = "Vanish"
     /\ OwnedByCurrentPlayer(command.id)
     /\ state.parts.abilities[command.id] # None
     /\ Matching(command.id, "Vanish") # {}
     /\ AllMatchingReady(command.id, "Vanish")
     /\ state.parts.pos[command.id] = Some(command.pos))
        => /\ ~HasAgent(command.id) => result = Ok
           /\ (HasAgent(command.id) /\ HasAttackResource(command.id))
                 => result = "BadActorType"

\* The abilities the claim gives distance bounds for.
RangedAbilities ==
    {"Knockback", "Club", "Poison", "Jump", "LongJump", "Dash",
     "Bomb", "BombPush", "BombFire", "BombPoison", "BombDemonic",
     "Heal", "GreatHeal"}

\* The least legal distance of the claim; 0 where it names no lower bound.
Lo(ability) ==
    CASE ability \in {"Knockback", "Club", "Poison"} -> 1
      [] ability \in {"Jump", "LongJump"} -> 2
      [] OTHER -> 0

\* The greatest legal distance of the claim.
Hi(ability) ==
    CASE ability \in {"Knockback", "Club", "Dash", "Heal", "GreatHeal"} -> 1
      [] ability = "Jump" -> 2
      [] OTHER -> 3

\* C5: a UseAbility command of a ranged ability that passes the preamble and
\* targets a tile at distance d <= hi + 1 is answered DistanceIsTooSmall when
\* d < lo, DistanceIsTooBig when d > hi and neither of the two when
\* lo <= d <= hi.
C5_DistanceSweep ==
    (/\ PassesPreamble
     /\ command.ability \in RangedAbilities
     /\ TargetDistance <= Hi(command.ability) + 1)
        => /\ TargetDistance < Lo(command.ability)
                => result = "DistanceIsTooSmall"
           /\ TargetDistance > Hi(command.ability)
                => result = "DistanceIsTooBig"
           /\ (/\ Lo(command.ability) <= TargetDistance
               /\ TargetDistance <= Hi(command.ability))
                => result \notin {"DistanceIsTooSmall", "DistanceIsTooBig"}

\* C5 witness: a long jump at its greatest legal distance is accepted.
C5_Witness ==
    /\ PassesPreamble
    /\ command.ability = "LongJump"
    /\ TargetDistance = Hi("LongJump")
    /\ result = Ok

\* The agent a Heal or Great Heal command targets, as an Option.
HealTarget == agent_id_at_opt(state, command.pos)

\* A heal that passes the preamble and targets a tile within distance 1
\* that holds an agent with a strength component.
HealsAnAgent ==
    /\ PassesPreamble
    /\ command.ability \in {"Heal", "GreatHeal"}
    /\ TargetDistance <= 1
    /\ HealTarget # None
    /\ state.parts.strength[HealTarget[1]] # None

Wounded(id) ==
    state.parts.strength[id][1].strength < state.parts.strength[id][1].base_strength

\* C6: such a heal is answered Ok exactly when the target's strength is below
\* its base strength, and BadTargetType otherwise.
C6_HealFullHealthBoundary ==
    HealsAnAgent
        => /\ result = Ok <=> Wounded(HealTarget[1])
           /\ ~Wounded(HealTarget[1]) => result = "BadTargetType"

\* C6 witness: a target one point below its base strength is healed.
C6_Witness ==
    /\ HealsAnAgent
    /\ state.parts.strength[HealTarget[1]][1].strength
          = state.parts.strength[HealTarget[1]][1].base_strength - 1
    /\ result = Ok

\* A UseAbility command of an actor of the current player that has attack
\* resource and an ability list.
ReachesReadinessScan ==
    /\ Submitted /\ Live
    /\ command.kind = "UseAbility"
    /\ OwnedByCurrentPlayer(command.id)
    /\ HasAgent(command.id) /\ HasAttackResource(command.id)
    /\ state.parts.abilities[command.id] # None

BadSteps ==
    {i \in 1..(Len(command.path) - 1) :
        \/ ~is_inboard(state, command.path[i + 1])
        \/ is_tile_blocked(state, command.path[i + 1])}

FirstBadStep == CHOOSE i \in BadSteps : \A j \in BadSteps : i <= j

\* The answer the claim gives to a MoveTo command.
MoveToAnswer ==
    IF ~HasAgent(command.id) THEN "BadActorId"
    ELSE IF ~OwnedByCurrentPlayer(command.id) THEN "CanNotCommandEnemyAgents"
    ELSE IF ~HasMoveResource(command.id) THEN "NotEnoughMoves"
    ELSE IF BadSteps # {}
         THEN IF ~is_inboard(state, command.path[FirstBadStep + 1])
              THEN "BadPos" ELSE "TileIsBlocked"
    ELSE IF cost_for(command.path, state, command.id) > AgentOf(command.id).move_points
         THEN "NotEnoughMovePoints"
    ELSE Ok

\* C8: with no recorded result a MoveTo command is answered with the error
\* of the first failing condition in the order agent component, owner,
\* moves or jokers, each step in path order (on the board, then not blocked),
\* path cost against move points alone; and Ok when none fails.
C8_MoveToOrder ==
    (Submitted /\ Live /\ command.kind = "MoveTo") => result = MoveToAnswer

\* C8 witness: an agent without moves passes on a joker, and its path costs
\* more than its move points.
C8_Witness ==
    /\ Submitted /\ Live /\ command.kind = "MoveTo"
    /\ HasAgent(command.id)
    /\ AgentOf(command.id).moves = 0
    /\ AgentOf(command.id).jokers > 0
    /\ BadSteps = {}
    /\ result = "NotEnoughMovePoints"

\* The answer the claim gives to an Attack command.
AttackAnswer ==
    LET a == command.attacker_id
        t == command.target_id
    IN  IF a = t THEN "BadTargetId"
        ELSE IF state.parts.pos[t] = None THEN "BadTargetId"
        ELSE IF ~HasAgent(a) THEN "BadActorId"
        ELSE IF ~OwnedByCurrentPlayer(a) THEN "CanNotCommandEnemyAgents"
        ELSE IF ~HasAgent(t) THEN "BadTargetId"
        ELSE IF ~is_inboard(state, state.parts.pos[t][1]) THEN "BadPos"
        ELSE IF ~HasAttackResource(a) THEN "NotEnoughAttacks"
        ELSE IF distance_hex(state.parts.pos[a][1], state.parts.pos[t][1])
                    > AgentOf(a).attack_distance
             THEN "DistanceIsTooBig"
        ELSE Ok

\* C9: with no recorded result an Attack command is answered with the error
\* of the first failing condition in the order attacker is not the target,
\* target position, attacker agent, owner, target agent, target on the
\* board, attacks or jokers, distance within the attack distance; and Ok when
\* none fails.  No least distance, no demand on the target's owner.
C9_AttackOrder ==
    (Submitted /\ Live /\ command.kind = "Attack") => result = AttackAnswer

\* C9 witness: an attack on an adjacent agent of the attacker's own player
\* is accepted.
C9_Witness ==
    /\ Submitted /\ Live /\ command.kind = "Attack"
    /\ state.parts.belongs_to[command.target_id]
          = state.parts.belongs_to[command.attacker_id]
    /\ result = Ok

\* C10: an accepted MoveTo, Attack or UseAbility command was checked in a
\* state without a recorded result, its actor is an agent of the current
\* player, and the actor has attacks or jokers (Attack, UseAbility) or moves
\* or jokers (MoveTo).
C10_AcceptanceSoundness ==
    (ActsOnActor /\ result = Ok)
        => /\ Live
           /\ HasAgent(Actor)
           /\ OwnedByCurrentPlayer(Actor)
           /\ command.kind \in {"Attack", "UseAbility"} => HasAttackResource(Actor)
           /\ command.kind = "MoveTo" => HasMoveResource(Actor)

\* C10 witness: an ability use accepted on a joker alone.
C10_Witness ==
    /\ Submitted /\ command.kind = "UseAbility"
    /\ result = Ok
    /\ AgentOf(command.id).attacks = 0

=============================================================================
